---- MODULE Spec2Model ----
(***************************************************************************)
(* HFY2EPUB: the three-stage pipeline  wiki manifest -> raw store ->        *)
(* processed store.  The model follows Downloader (RawSync) and             *)
(* BaseProcessor / AJ4ADProcessor (ProcessedSync) step by step: one action  *)
(* for the start of a run (validation, diff, wipe), one per drained queue   *)
(* item, one for the end of the run (collapse, metadata write).             *)
(*                                                                          *)
(* A content file name is "<revision_date> - <submission id> - [<title>]"; *)
(* the id and the title are fixed per url, so a file name is modelled as    *)
(* the pair <<revision_date, url>>.  A metadata file is modelled as a       *)
(* sequence of length 0 (no metadata.yaml) or 1 (its deserialized content). *)
(***************************************************************************)
EXTENDS Integers, Sequences, FiniteSets, TLC

\* ------------------------------------------------------------------ bounds
Urls == {1, 2, 3}          \* chapter urls (ordered, as strings are in pandas)
MaxRev == 2                \* revisions of a post are 1..MaxRev
MaxWiki == Cardinality(Urls)   \* longest manifest
MaxEdits == 3              \* upstream changes (manifest rewrites, post edits) in one behaviour

VARIABLES
    wiki,              \* newest wiki_*.yaml of wiki_dir: <<>> or <<manifest>>
    reddit,            \* url -> current revision_date of the submission
    rawMeta,           \* raw_dir/metadata.yaml: <<>> or <<metadata>>
    rawFiles,          \* raw_dir/*.md
    procMeta,          \* processed_dir/metadata.yaml
    procFiles,         \* processed_dir/*.md
    pc,                \* Project.run: "idle" (before Downloader.run), "dl_all", "dl_update",
                       \* "dl_done" (before Processor.run), "pr_all", "pr_update"
    queue,             \* missing_chapters / download_queue / processing_queue
    metadata,          \* the run's in-memory metadata dict
    pre,               \* history: the store's metadata file and files when the run began
    writes,            \* history: metadata writes of the latest run
    dlFailed,          \* history: urls whose fetch failed in the latest Downloader run
    dlFailedPrev,      \* history: during a Downloader run, dlFailed of the run before it
    fetched,           \* history: urls fetched by the current Downloader run
    prFailed,          \* history: files whose transform failed in the current Processor run
    taint,             \* history: upstream changed or a record failed during this run
    dlStreak,          \* history: clean Downloader runs in a row, upstream unchanged (0..2)
    prStreak,          \* history: clean Processor runs in a row, raw store unchanged (0..2)
    edits,             \* upstream changes so far
    rawYaml,           \* text of raw_dir/metadata.yaml: "ok", "empty" or "corrupt"
    procYaml           \* text of processed_dir/metadata.yaml

vars == <<wiki, reddit, rawMeta, rawFiles, procMeta, procFiles, pc, queue, metadata,
          pre, writes, dlFailed, dlFailedPrev, fetched, prFailed, taint, dlStreak,
          prStreak, edits, rawYaml, procYaml>>

\* yaml.safe_dump always writes a well-formed document: no run changes these
yamls == <<rawYaml, procYaml>>

\* ------------------------------------------------------------- data model
Absent == <<>>
File(m) == <<m>>
Exists(f) == f # <<>>
Load(f) == f[1]

Revs == 1..MaxRev

FileName(revision_date, url) == <<revision_date, url>>

ChapterRecord(url, revision_date) ==
    [url |-> url, filename |-> FileName(revision_date, url), revision_date |-> revision_date]

Identity(m) == <<m.subreddit, m.wiki_uri, m.wiki_section>>

Range(s) == {s[i] : i \in 1..Len(s)}

UrlsOf(chapters) == {chapters[i].url : i \in 1..Len(chapters)}

FilenamesOf(chapters) == {chapters[i].filename : i \in 1..Len(chapters)}

RECURSIVE SeqOfSet(_)
\* a set of urls as a sequence in ascending order
SeqOfSet(S) ==
    IF S = {} THEN <<>>
    ELSE LET m == CHOOSE x \in S : \A y \in S : x <= y
         IN <<m>> \o SeqOfSet(S \ {m})

\* all orders in which a set can be iterated
Orders(S) ==
    {s \in [1..Cardinality(S) -> S] : \A i, j \in 1..Cardinality(S) : i # j => s[i] # s[j]}

SubSeqAt(s, I) ==
    LET idx == SeqOfSet(I) IN [k \in 1..Len(idx) |-> s[idx[k]]]

\* -------------------------------------------------- Downloader/validator.py
\* validate_metadata(raw_dir): files = *.md of raw_dir, meta = metadata.yaml
validate_metadata(files, meta) ==
    IF ~Exists(meta) THEN FALSE
    ELSE IF files = {} THEN FALSE
    ELSE LET metadata_set == FilenamesOf(Load(meta).chapters)
             missing_markdown == metadata_set \ files
         IN  IF Cardinality(missing_markdown) > 0 THEN FALSE
             ELSE IF Cardinality(missing_markdown) < 0 THEN FALSE
             ELSE TRUE

\* a compare_meta_and_wiki that rejects metadata holding a url the wiki no longer lists
compare_meta_and_wiki_strict(meta, wiki_data) ==
    IF meta.wiki_uri # wiki_data.wiki_uri THEN [is_valid |-> FALSE, missing |-> {}]
    ELSE IF meta.wiki_section # wiki_data.wiki_section
         THEN [is_valid |-> FALSE, missing |-> {}]
    ELSE IF ~(UrlsOf(meta.chapters) \subseteq Range(wiki_data.chapters))
         THEN [is_valid |-> FALSE, missing |-> {}]
    ELSE [is_valid |-> TRUE,
          missing |-> Range(wiki_data.chapters) \ UrlsOf(meta.chapters)]

\* a compare_meta_and_wiki whose set difference is taken the other way round
compare_meta_and_wiki_reversed(meta, wiki_data) ==
    IF meta.wiki_uri # wiki_data.wiki_uri THEN [is_valid |-> FALSE, missing |-> {}]
    ELSE IF meta.wiki_section # wiki_data.wiki_section
         THEN [is_valid |-> FALSE, missing |-> {}]
    ELSE [is_valid |-> TRUE,
          missing |-> UrlsOf(meta.chapters) \ Range(wiki_data.chapters)]

\* compare_meta_and_wiki: (is_valid, the urls of the wiki that metadata lacks)
compare_meta_and_wiki(meta, wiki_data) ==
    IF meta.wiki_uri # wiki_data.wiki_uri THEN [is_valid |-> FALSE, missing |-> {}]
    ELSE IF meta.wiki_section # wiki_data.wiki_section
         THEN [is_valid |-> FALSE, missing |-> {}]
    ELSE [is_valid |-> TRUE,
          missing |-> Range(wiki_data.chapters) \ UrlsOf(meta.chapters)]

\* ------------------------------------------------- Downloader/downloader.py
LookBack == 2

\* df.sort_values(by='revision_date', ascending=False)['url'][:2]; the order of
\* records of equal revision_date is the sort's choice
RecheckUrls(chapters) ==
    LET n == Len(chapters)
        k == IF n < LookBack THEN n ELSE LookBack
        picks == {p \in [1..k -> 1..n] :
                    /\ \A i, j \in 1..k : i < j =>
                          /\ p[i] # p[j]
                          /\ chapters[p[i]].revision_date >= chapters[p[j]].revision_date
                    /\ \A i \in 1..n : (\A j \in 1..k : p[j] # i) =>
                          \A j \in 1..k :
                              chapters[p[j]].revision_date >= chapters[i].revision_date}
    IN {[j \in 1..k |-> chapters[p[j]].url] : p \in picks}

\* a record sorts before another in sort_values(by=['url','revision_date'], ascending=False)
SortsBefore(a, b) ==
    \/ a.url > b.url
    \/ a.url = b.url /\ a.revision_date >= b.revision_date

RECURSIVE SortChapters(_)
SortChapters(chapters) ==
    IF Len(chapters) = 0 THEN <<>>
    ELSE LET n == Len(chapters)
             i == CHOOSE i \in 1..n : \A j \in 1..n : SortsBefore(chapters[i], chapters[j])
         IN <<chapters[i]>> \o SortChapters(SubSeqAt(chapters, (1..n) \ {i}))

\* drop_duplicates(subset=['url'], keep='last')
DropDuplicates_keep_last(df) ==
    SubSeqAt(df, {i \in 1..Len(df) : \A j \in (i + 1)..Len(df) : df[j].url # df[i].url})

\* drop_duplicates(subset=['url'], keep='first')
DropDuplicates(df) ==
    SubSeqAt(df, {i \in 1..Len(df) : \A j \in 1..(i - 1) : df[j].url # df[i].url})

\* the rows of df_sorted that delete_old_chapters removes from disk:
\* mask = df_sorted['url'].isin(df_filtered['url']); df_to_delete = df_sorted[~mask]
RowsToDelete(df_sorted, df_filtered) ==
    SubSeqAt(df_sorted, {i \in 1..Len(df_sorted) : df_sorted[i].url \notin UrlsOf(df_filtered)})

\* delete_old_chapters(chapters): the records kept and the files left on disk
delete_old_chapters(chapters, files) ==
    LET df_sorted == SortChapters(chapters)
        df_filtered == DropDuplicates(df_sorted)
        df_to_delete == RowsToDelete(df_sorted, df_filtered)
    IN [chapters |-> df_filtered, files |-> files \ FilenamesOf(df_to_delete)]

\* a starting metadata dict that keeps the chapters of the raw metadata file
NewMetadata_keep_chapters(src) ==
    [subreddit |-> src.subreddit, wiki_uri |-> src.wiki_uri,
     wiki_section |-> src.wiki_section,
     chapters |-> IF rawMeta = <<>> THEN <<>> ELSE rawMeta[1].chapters]

\* the metadata dict fetch_all_chapters starts from
NewMetadata(src) ==
    [subreddit |-> src.subreddit, wiki_uri |-> src.wiki_uri,
     wiki_section |-> src.wiki_section, chapters |-> <<>>]


\* --------------------------------------------- Processor/base_processor.py
\* BaseProcessor.validate_metadata once raw metadata is loaded: files = *.md of
\* processed_dir, meta = processed_dir/metadata.yaml, raw = the raw metadata
BaseProcessor_validate_metadata(files, meta, raw) ==
    IF ~Exists(meta) THEN FALSE
    ELSE IF \/ Load(meta).subreddit # raw.subreddit
            \/ Load(meta).wiki_uri # raw.wiki_uri
            \/ Load(meta).wiki_section # raw.wiki_section
         THEN FALSE
    ELSE IF files = {} THEN FALSE
    ELSE IF files # FilenamesOf(Load(meta).chapters) THEN FALSE
    ELSE TRUE

\* the rows pd.merge(chapters_df, raw_chapters_df, on='url', how='right') gives for
\* one raw record: one per processed record of that url, or one without a processed side
RowsFor(chapters, raw_chapter) ==
    LET hits == {i \in 1..Len(chapters) : chapters[i].url = raw_chapter.url}
    IN IF hits = {}
       THEN << [processed |-> <<>>, raw |-> raw_chapter] >>
       ELSE [k \in 1..Cardinality(hits) |->
                [processed |-> <<SubSeqAt(chapters, hits)[k]>>, raw |-> raw_chapter]]

RECURSIVE MergeFrom(_, _, _)
MergeFrom(chapters, raw_chapters, j) ==
    IF j > Len(raw_chapters) THEN <<>>
    ELSE RowsFor(chapters, raw_chapters[j]) \o MergeFrom(chapters, raw_chapters, j + 1)

merged_df(chapters, raw_chapters) == MergeFrom(chapters, raw_chapters, 1)

\* one iteration of the loop of fetch_update over a merged row
FetchUpdateRow(st, row) ==
    IF st.raised THEN st
    ELSE IF row.processed = <<>>
    THEN [st EXCEPT !.queue = Append(@, row.raw.filename)]
    ELSE IF row.raw.revision_date > row.processed[1].revision_date
    THEN LET outdated_file == row.processed[1].filename
         IN IF outdated_file \notin st.files
            THEN [st EXCEPT !.queue = Append(@, row.raw.filename), !.raised = TRUE]
            ELSE [st EXCEPT
                    !.queue = Append(@, row.raw.filename),
                    !.files = @ \ {outdated_file},
                    !.chapters = SelectSeq(@, LAMBDA c : c.filename # outdated_file)]
    ELSE st

RECURSIVE FetchUpdateRows(_, _, _)
FetchUpdateRows(st, rows, k) ==
    IF k > Len(rows) THEN st
    ELSE FetchUpdateRows(FetchUpdateRow(st, rows[k]), rows, k + 1)

\* BaseProcessor.fetch_update up to the metadata write: the queue, the files left in
\* processed_dir, the records kept, and whether an exception ended it (merge on a
\* frame without a url column, os.remove of a file already removed)
fetch_update(chapters, files, raw_chapters) ==
    IF Len(raw_chapters) = 0
    THEN [queue |-> <<>>, files |-> files, chapters |-> chapters, raised |-> TRUE]
    ELSE FetchUpdateRows(
            [queue |-> <<>>, files |-> files, chapters |-> chapters, raised |-> FALSE],
            merged_df(chapters, raw_chapters), 1)

\* BaseProcessor.fetch_all: the filename of every raw record, in order
fetch_all(raw_chapters) == [i \in 1..Len(raw_chapters) |-> raw_chapters[i].filename]

\* a record that takes url and revision_date from the first row of the raw frame
ProcessedRecord_first_row(raw_chapters, filename) ==
    [url |-> raw_chapters[1].url, filename |-> filename,
     revision_date |-> raw_chapters[1].revision_date]

\* the record run() appends for a processed path: url and revision_date of the
\* first raw record with that filename
ProcessedRecord(raw_chapters, filename) ==
    LET i == CHOOSE i \in 1..Len(raw_chapters) :
                /\ raw_chapters[i].filename = filename
                /\ \A j \in 1..(i - 1) : raw_chapters[j].filename # filename
    IN [url |-> raw_chapters[i].url, filename |-> filename,
        revision_date |-> raw_chapters[i].revision_date]

\* ------------------------------------------------------------------ state
\* an empty dict: BaseProcessor.metadata before anything is loaded
EmptyDict == [subreddit |-> 0, wiki_uri |-> 0, wiki_section |-> 0, chapters |-> <<>>]

NoPre == [meta |-> Absent, files |-> {}]

Bump(streak) == IF streak < 2 THEN streak + 1 ELSE streak

\* Project.__init__: the three directories exist and are empty
Init ==
    /\ wiki = Absent
    /\ reddit = [u \in Urls |-> 1]
    /\ rawMeta = Absent /\ rawFiles = {}
    /\ procMeta = Absent /\ procFiles = {}
    /\ pc = "idle"
    /\ queue = <<>>
    /\ metadata = EmptyDict
    /\ pre = NoPre
    /\ writes = 0
    /\ dlFailed = {}
    /\ dlFailedPrev = {}
    /\ fetched = {}
    /\ prFailed = {}
    /\ taint = FALSE
    /\ dlStreak = 0
    /\ prStreak = 0
    /\ edits = 0
    /\ rawYaml = "ok"
    /\ procYaml = "ok"

\* ------------------------------------------------------------ environment
\* WikiProcessor.fetch_wiki_data + write_wiki_data: a new newest wiki file.  The
\* manifest is never empty (fetch_wiki_data raises when no chapter is found).
WikiWrite(m) ==
    /\ pc = "idle"
    /\ edits < MaxEdits
    /\ edits' = edits + 1
    /\ wiki' = File(m)
    /\ dlStreak' = 0
    /\ UNCHANGED <<reddit, rawMeta, rawFiles, procMeta, procFiles, pc, queue, metadata,
                   pre, writes, dlFailed, dlFailedPrev, fetched, prFailed, taint,
                   prStreak>>
    /\ UNCHANGED yamls

\* the first manifest of a project
WikiCreate ==
    /\ ~Exists(wiki)
    /\ \E u \in Urls :
        WikiWrite([subreddit |-> 0, wiki_uri |-> 0, wiki_section |-> 0, chapters |-> <<u>>])

\* a link is added to the section (a link may occur twice in a section)
WikiAppend ==
    /\ Exists(wiki)
    /\ Len(Load(wiki).chapters) < MaxWiki
    /\ \E u \in Urls :
        WikiWrite([Load(wiki) EXCEPT !.chapters = Append(@, u)])

\* a link is removed from the section
WikiRemove ==
    /\ Exists(wiki)
    /\ Len(Load(wiki).chapters) > 1
    /\ \E i \in 1..Len(Load(wiki).chapters) :
        WikiWrite([Load(wiki) EXCEPT
                     !.chapters = SubSeqAt(@, (1..Len(@)) \ {i})])

\* a link of the section is replaced by another
WikiReplace ==
    /\ Exists(wiki)
    /\ \E i \in 1..Len(Load(wiki).chapters) :
       \E u \in Urls \ {Load(wiki).chapters[i]} :
        WikiWrite([Load(wiki) EXCEPT !.chapters[i] = u])

\* the project is pointed, once, at another subreddit, wiki page or section
WikiMove ==
    /\ Exists(wiki)
    /\ Identity(Load(wiki)) = <<0, 0, 0>>
    /\ \/ WikiWrite([Load(wiki) EXCEPT !.subreddit = 1])
       \/ WikiWrite([Load(wiki) EXCEPT !.wiki_uri = 1])
       \/ WikiWrite([Load(wiki) EXCEPT !.wiki_section = 1])

\* the urls a Downloader run can fetch: those of the manifest and of the raw records
Listed ==
    (IF Exists(wiki) THEN Range(Load(wiki).chapters) ELSE {})
        \cup (IF Exists(rawMeta) THEN UrlsOf(Load(rawMeta).chapters) ELSE {})
        \cup Range(queue)

\* the author adds a comment to the chain of a post: its revision_date grows.
\* Only the Downloader reads reddit, so an edit during a Processor run is the
\* same as one right after it, and an edit of a post that is not listed yet is
\* the same as one made once it is.
RedditEdit ==
    /\ pc \in {"idle", "dl_all", "dl_update"}
    /\ edits < MaxEdits
    /\ edits' = edits + 1
    /\ \E u \in Listed :
        /\ reddit[u] < MaxRev
        /\ reddit' = [reddit EXCEPT ![u] = @ + 1]
    /\ dlStreak' = 0
    /\ taint' = (pc # "idle")
    /\ UNCHANGED <<wiki, rawMeta, rawFiles, procMeta, procFiles, pc, queue, metadata,
                   pre, writes, dlFailed, dlFailedPrev, fetched, prFailed, prStreak>>
    /\ UNCHANGED yamls

\* ------------------------------------------------------- Downloader.run
\* the Processor's upstream is the raw store
RawChanged == rawMeta' # rawMeta \/ rawFiles' # rawFiles

\* run() without a wiki file: fetch_all_chapters returns {} after clearing raw_dir,
\* fetch_update returns None; nothing is written
DlRunNoWiki ==
    /\ pc = "idle"
    /\ ~Exists(wiki)
    /\ IF validate_metadata(rawFiles, rawMeta)
       THEN UNCHANGED <<rawMeta, rawFiles>>
       ELSE rawMeta' = Absent /\ rawFiles' = {}
    /\ writes' = 0
    /\ dlFailed' = {}
    /\ dlStreak' = 0
    /\ prStreak' = IF RawChanged THEN 0 ELSE prStreak
    /\ pc' = "dl_done"
    /\ UNCHANGED <<wiki, reddit, procMeta, procFiles, queue, metadata, pre,
                   dlFailedPrev, fetched, prFailed, taint, edits>>
    /\ UNCHANGED yamls

\* run() -> fetch_all_chapters, either directly (validation failed) or from
\* fetch_update (wiki_uri / wiki_section differ): raw_dir/*.* is removed, every
\* url of the wiki is queued
DlRunFetchAll ==
    /\ pc = "idle"
    /\ Exists(wiki)
    /\ IF validate_metadata(rawFiles, rawMeta)
       THEN ~compare_meta_and_wiki(Load(rawMeta), Load(wiki)).is_valid
       ELSE TRUE
    /\ pre' = [meta |-> rawMeta, files |-> rawFiles]
    /\ rawMeta' = Absent
    /\ rawFiles' = {}
    /\ queue' = Load(wiki).chapters
    /\ metadata' = NewMetadata(Load(wiki))
    /\ pc' = "dl_all"
    /\ writes' = 0
    /\ dlFailed' = {}
    /\ dlFailedPrev' = dlFailed
    /\ taint' = FALSE
    /\ prStreak' = IF RawChanged THEN 0 ELSE prStreak
    /\ UNCHANGED <<wiki, reddit, procMeta, procFiles, fetched, prFailed, dlStreak,
                   edits>>
    /\ UNCHANGED yamls

\* run() -> fetch_update finds no missing chapter: returns None, nothing is written
DlRunUpToDate ==
    /\ pc = "idle"
    /\ Exists(wiki)
    /\ validate_metadata(rawFiles, rawMeta)
    /\ LET cmp == compare_meta_and_wiki(Load(rawMeta), Load(wiki))
       IN cmp.is_valid /\ cmp.missing = {}
    /\ writes' = 0
    /\ dlFailed' = {}
    /\ dlStreak' = Bump(dlStreak)
    /\ pc' = "dl_done"
    /\ UNCHANGED <<wiki, reddit, rawMeta, rawFiles, procMeta, procFiles, queue,
                   metadata, pre, dlFailedPrev, fetched, prFailed, taint, prStreak,
                   edits>>
    /\ UNCHANGED yamls

\* run() -> fetch_update with missing chapters: they are queued (a set, in its
\* iteration order), then the urls of the two newest records
DlRunUpdate ==
    /\ pc = "idle"
    /\ Exists(wiki)
    /\ validate_metadata(rawFiles, rawMeta)
    /\ LET cmp == compare_meta_and_wiki(Load(rawMeta), Load(wiki))
       IN /\ cmp.is_valid
          /\ cmp.missing # {}
          /\ \E order \in Orders(cmp.missing) :
             \E recheck \in RecheckUrls(Load(rawMeta).chapters) :
                queue' = order \o recheck
    /\ pre' = [meta |-> rawMeta, files |-> rawFiles]
    /\ metadata' = Load(rawMeta)
    /\ pc' = "dl_update"
    /\ writes' = 0
    /\ dlFailed' = {}
    /\ dlFailedPrev' = dlFailed
    /\ taint' = FALSE
    /\ UNCHANGED <<wiki, reddit, rawMeta, rawFiles, procMeta, procFiles, fetched,
                   prFailed, dlStreak, prStreak, edits>>
    /\ UNCHANGED yamls

\* fetch_chapter(url) succeeded: the file is written, its record returned
fetch_chapter(url) == ChapterRecord(url, reddit[url])

\* one turn of the download loop: fetch_chapter returns a record, or None on any error
DlFetch ==
    /\ pc \in {"dl_all", "dl_update"}
    /\ queue # <<>>
    /\ LET chapter_url == Head(queue)
       IN \E ok \in BOOLEAN :
            IF ok
            THEN /\ rawFiles' = rawFiles \cup {fetch_chapter(chapter_url).filename}
                 /\ metadata' = [metadata EXCEPT
                                   !.chapters = Append(@, fetch_chapter(chapter_url))]
                 /\ fetched' = fetched \cup {chapter_url}
                 /\ UNCHANGED <<dlFailed, taint>>
            ELSE /\ dlFailed' = dlFailed \cup {chapter_url}
                 /\ taint' = TRUE
                 /\ UNCHANGED <<rawFiles, metadata, fetched>>
    /\ queue' = Tail(queue)
    /\ prStreak' = IF rawFiles' # rawFiles THEN 0 ELSE prStreak
    /\ UNCHANGED <<wiki, reddit, rawMeta, procMeta, procFiles, pc, pre, writes,
                   dlFailedPrev, prFailed, dlStreak, edits>>
    /\ UNCHANGED yamls

\* the queue is drained: fetch_update collapses old versions, run() writes metadata.yaml
DlFinish ==
    /\ pc \in {"dl_all", "dl_update"}
    /\ queue = <<>>
    /\ IF pc = "dl_update"
       THEN LET cleared == delete_old_chapters(metadata.chapters, rawFiles)
            IN /\ rawFiles' = cleared.files
               /\ rawMeta' = File([metadata EXCEPT !.chapters = cleared.chapters])
       ELSE /\ rawFiles' = rawFiles
            /\ rawMeta' = File(metadata)
    /\ writes' = writes + 1
    /\ pc' = "dl_done"
    /\ metadata' = EmptyDict
    /\ pre' = NoPre
    /\ taint' = FALSE
    /\ dlStreak' = IF taint THEN 0 ELSE Bump(dlStreak)
    /\ prStreak' = IF RawChanged THEN 0 ELSE prStreak
    /\ dlFailedPrev' = {}
    /\ fetched' = {}
    /\ UNCHANGED <<wiki, reddit, procMeta, procFiles, queue, dlFailed, prFailed, edits>>
    /\ UNCHANGED yamls

\* ---------------------------------------------------- BaseProcessor.run
\* validate_metadata loads raw_dir/metadata.yaml into self.raw_metadata
raw_metadata == Load(rawMeta)

\* run() without raw metadata: validate_metadata raises FileNotFoundError
PrRunNoRaw ==
    /\ pc = "dl_done"
    /\ ~Exists(rawMeta)
    /\ writes' = 0
    /\ prStreak' = 0
    /\ pc' = "idle"
    /\ UNCHANGED <<wiki, reddit, rawMeta, rawFiles, procMeta, procFiles, queue,
                   metadata, pre, dlFailed, dlFailedPrev, fetched, prFailed, taint,
                   dlStreak, edits>>
    /\ UNCHANGED yamls

\* a wipe that also clears the *.md files of raw_dir
PrRunWipe_raw_dir ==
    /\ pc = "dl_done"
    /\ Exists(rawMeta)
    /\ ~BaseProcessor_validate_metadata(procFiles, procMeta, raw_metadata)
    /\ pre' = [meta |-> procMeta, files |-> procFiles]
    /\ procFiles' = {}
    /\ rawFiles' = {}
    /\ procMeta' = Absent
    /\ metadata' = NewMetadata(raw_metadata)
    /\ queue' = fetch_all(raw_metadata.chapters)
    /\ pc' = "pr_all"
    /\ writes' = 0
    /\ taint' = FALSE
    /\ UNCHANGED <<wiki, reddit, rawMeta, dlFailed, dlFailedPrev, fetched,
                   prFailed, dlStreak, prStreak, edits>>
    /\ UNCHANGED yamls

\* run() -> wipe + fetch_all: processed_dir/*.* is removed, every raw record is queued
PrRunWipe ==
    /\ pc = "dl_done"
    /\ Exists(rawMeta)
    /\ ~BaseProcessor_validate_metadata(procFiles, procMeta, raw_metadata)
    /\ pre' = [meta |-> procMeta, files |-> procFiles]
    /\ procFiles' = {}
    /\ procMeta' = Absent
    /\ metadata' = NewMetadata(raw_metadata)
    /\ queue' = fetch_all(raw_metadata.chapters)
    /\ pc' = "pr_all"
    /\ writes' = 0
    /\ taint' = FALSE
    /\ UNCHANGED <<wiki, reddit, rawMeta, rawFiles, dlFailed, dlFailedPrev, fetched,
                   prFailed, dlStreak, prStreak, edits>>
    /\ UNCHANGED yamls

\* run() -> fetch_update: outdated files are removed, new and updated records
\* queued, and metadata.yaml is written when the queue is not empty; an exception
\* in fetch_update ends the run
PrRunUpdate ==
    /\ pc = "dl_done"
    /\ Exists(rawMeta)
    /\ BaseProcessor_validate_metadata(procFiles, procMeta, raw_metadata)
    /\ LET r == fetch_update(Load(procMeta).chapters, procFiles, raw_metadata.chapters)
           kept == [Load(procMeta) EXCEPT !.chapters = r.chapters]
       IN /\ procFiles' = r.files
          /\ IF r.raised
             THEN /\ pc' = "idle"
                  /\ UNCHANGED <<procMeta, queue, metadata, pre>>
                  /\ writes' = 0
                  /\ prStreak' = 0
             ELSE /\ pre' = [meta |-> procMeta, files |-> procFiles]
                  /\ metadata' = kept
                  /\ queue' = r.queue
                  /\ pc' = "pr_update"
                  /\ procMeta' = IF r.queue # <<>> THEN File(kept) ELSE procMeta
                  /\ writes' = IF r.queue # <<>> THEN 1 ELSE 0
                  /\ UNCHANGED prStreak
    /\ taint' = FALSE
    /\ UNCHANGED <<wiki, reddit, rawMeta, rawFiles, dlFailed, dlFailedPrev, fetched,
                   prFailed, dlStreak, edits>>
    /\ UNCHANGED yamls

\* what process_chapter can do with a raw file: write the processed file ("ok"),
\* return without output when no title is found ("skip"), or raise ("raise":
\* the raw file cannot be opened, del chapter_text[0] on an empty file, index()
\* not finding the chapter-one title)
Outcomes(chapter) ==
    IF chapter \in rawFiles THEN {"ok", "skip", "raise"} ELSE {"raise"}

\* one turn of the loop of run(): process_chapter, then the record is appended
PrStep ==
    /\ pc \in {"pr_all", "pr_update"}
    /\ queue # <<>>
    /\ LET chapter == Head(queue)
       IN \E outcome \in Outcomes(chapter) :
            IF outcome = "raise"
            THEN /\ pc' = "idle"
                 /\ queue' = <<>>
                 /\ metadata' = EmptyDict
                 /\ pre' = NoPre
                 /\ taint' = FALSE
                 /\ prStreak' = 0
                 /\ prFailed' = {}
                 /\ UNCHANGED procFiles
            ELSE /\ procFiles' = IF outcome = "ok" THEN procFiles \cup {chapter}
                                 ELSE procFiles
                 /\ prFailed' = IF outcome = "ok" THEN prFailed
                                ELSE prFailed \cup {chapter}
                 /\ taint' = (taint \/ outcome # "ok")
                 /\ metadata' = [metadata EXCEPT
                        !.chapters = Append(@, ProcessedRecord(raw_metadata.chapters,
                                                               chapter))]
                 /\ queue' = Tail(queue)
                 /\ UNCHANGED <<pc, pre, prStreak>>
    /\ UNCHANGED <<wiki, reddit, rawMeta, rawFiles, procMeta, writes, dlFailed,
                   dlFailedPrev, fetched, dlStreak, edits>>
    /\ UNCHANGED yamls

\* the queue is drained: run() writes metadata.yaml
PrFinish ==
    /\ pc \in {"pr_all", "pr_update"}
    /\ queue = <<>>
    /\ procMeta' = File(metadata)
    /\ writes' = writes + 1
    /\ pc' = "idle"
    /\ metadata' = EmptyDict
    /\ pre' = NoPre
    /\ taint' = FALSE
    /\ prStreak' = IF taint THEN 0 ELSE Bump(prStreak)
    /\ prFailed' = {}
    /\ UNCHANGED <<wiki, reddit, rawMeta, rawFiles, procFiles, queue, dlFailed,
                   dlFailedPrev, fetched, dlStreak, edits>>
    /\ UNCHANGED yamls

DlRun == DlRunNoWiki \/ DlRunFetchAll \/ DlRunUpToDate \/ DlRunUpdate

PrRun == PrRunNoRaw \/ PrRunWipe \/ PrRunUpdate

Next ==
    \/ WikiCreate
    \/ WikiAppend
    \/ WikiRemove
    \/ WikiReplace
    \/ WikiMove
    \/ RedditEdit
    \/ DlRunNoWiki
    \/ DlRunFetchAll
    \/ DlRunUpToDate
    \/ DlRunUpdate
    \/ DlFetch
    \/ DlFinish
    \/ PrRunNoRaw
    \/ PrRunWipe
    \/ PrRunUpdate
    \/ PrStep
    \/ PrFinish

Spec == Init /\ [][Next]_vars

\* ------------------------------------------- the validators as calls
\* validate_metadata(raw_dir) as a call: "true" or "false" for what it returns,
\* "raise" when an exception leaves it.  yaml is the text of metadata.yaml:
\* yaml.safe_load raises on a corrupt document and returns None for an empty
\* one, and metadata['chapters'] on None raises TypeError.
validate_metadata_call(files, meta, yaml) ==
    IF ~Exists(meta) THEN "false"
    ELSE IF files = {} THEN "false"
    ELSE IF yaml = "corrupt" THEN "raise"
    ELSE IF yaml = "empty" THEN "raise"
    ELSE IF validate_metadata(files, meta) THEN "true"
    ELSE "false"

\* BaseProcessor.validate_metadata() as a call: raw and raw_yaml are
\* raw_dir/metadata.yaml, meta and yaml processed_dir/metadata.yaml
BaseProcessor_validate_metadata_call(files, meta, yaml, raw, raw_yaml) ==
    IF ~Exists(raw) THEN "raise"
    ELSE IF raw_yaml = "corrupt" THEN "raise"
    ELSE IF ~Exists(meta) THEN "false"
    ELSE IF yaml = "corrupt" THEN "raise"
    ELSE IF yaml = "empty" \/ raw_yaml = "empty" THEN "false"
    ELSE IF BaseProcessor_validate_metadata(files, meta, Load(raw)) THEN "true"
    ELSE "false"

\* the stores the validators are applied to: any content a directory can hold,
\* a metadata.yaml cut short or emptied by an interrupted write included
ValFiles == {FileName(1, 1), FileName(1, 2)}

ValChapters ==
    {<<>>, <<ChapterRecord(1, 1)>>, <<ChapterRecord(1, 1), ChapterRecord(2, 1)>>}

ValMetas ==
    {[subreddit |-> sr, wiki_uri |-> 0, wiki_section |-> 0, chapters |-> ch] :
        sr \in {0, 1}, ch \in ValChapters}

\* a metadata.yaml and the state of its text: absent, well-formed with some
\* content, or present but empty or corrupt (its content then is of no account)
ValStores ==
    {<<Absent, "ok">>} \cup {<<File(m), "ok">> : m \in ValMetas}
        \cup {<<File(EmptyDict), y>> : y \in {"empty", "corrupt"}}

ValInit ==
    /\ wiki = Absent
    /\ reddit = [u \in Urls |-> 1]
    /\ \E st \in ValStores : rawMeta = st[1] /\ rawYaml = st[2]
    /\ rawFiles \in SUBSET ValFiles
    /\ \E st \in ValStores : procMeta = st[1] /\ procYaml = st[2]
    /\ procFiles \in SUBSET ValFiles
    /\ pc = "idle"
    /\ queue = <<>>
    /\ metadata = EmptyDict
    /\ pre = NoPre
    /\ writes = 0
    /\ dlFailed = {}
    /\ dlFailedPrev = {}
    /\ fetched = {}
    /\ prFailed = {}
    /\ taint = FALSE
    /\ dlStreak = 0
    /\ prStreak = 0
    /\ edits = 0

\* Downloader.run calls validate_metadata(self.raw_dir); pc records the outcome
ValidateRaw ==
    /\ pc = "idle"
    /\ pc' = "raw_" \o validate_metadata_call(rawFiles, rawMeta, rawYaml)
    /\ UNCHANGED <<wiki, reddit, rawMeta, rawFiles, procMeta, procFiles, queue,
                   metadata, pre, writes, dlFailed, dlFailedPrev, fetched, prFailed,
                   taint, dlStreak, prStreak, edits, yamls>>

\* BaseProcessor.run calls self.validate_metadata(); pc records the outcome
ValidateProcessed ==
    /\ pc = "idle"
    /\ pc' = "proc_" \o BaseProcessor_validate_metadata_call(procFiles, procMeta, procYaml,
                                                             rawMeta, rawYaml)
    /\ UNCHANGED <<wiki, reddit, rawMeta, rawFiles, procMeta, procFiles, queue,
                   metadata, pre, writes, dlFailed, dlFailedPrev, fetched, prFailed,
                   taint, dlStreak, prStreak, edits, yamls>>

ValNext ==
    \/ ValidateRaw
    \/ ValidateProcessed

SpecValidate == ValInit /\ [][ValNext]_vars

\* ------------------------------------------------------------------ claims
\* ------------------------------------------------------------------ claims
ChaptersOf(meta) == IF Exists(meta) THEN Load(meta).chapters ELSE <<>>

WikiUrls == IF Exists(wiki) THEN Range(Load(wiki).chapters) ELSE {}

\* the revisions a store records for a url
RevisionsOf(chapters, url) ==
    {chapters[i].revision_date : i \in {j \in 1..Len(chapters) : chapters[j].url = url}}

UrlCount(chapters, url) == Cardinality({i \in 1..Len(chapters) : chapters[i].url = url})

\* C1: a second reconciliation run in a row, with the upstream unchanged and no
\* failed record, leaves the store's metadata file and content files as the
\* first run left them (Downloader: rawMeta, rawFiles against the wiki and reddit;
\* Processor: procMeta, procFiles against the raw store).
C1_Idempotence ==
    [][ /\ (DlRun /\ dlStreak >= 1) =>
            (pc' = "dl_done" /\ rawMeta' = rawMeta /\ rawFiles' = rawFiles)
        /\ (PrFinish /\ prStreak >= 1 /\ ~taint) =>
            (procMeta' = pre.meta /\ procFiles' = pre.files) ]_vars

\* C2: after a run in which every fetch/transform succeeded, every upstream url
\* has exactly one downstream record, at a revision not older than the upstream's.
C2_Convergence ==
    [][ /\ ((DlFinish \/ DlRunUpToDate) /\ ~taint) =>
            \A u \in WikiUrls :
                /\ UrlCount(ChaptersOf(rawMeta'), u) = 1
                /\ \A r \in RevisionsOf(ChaptersOf(rawMeta'), u) : r >= reddit[u]
        /\ (PrFinish /\ ~taint) =>
            \A i \in 1..Len(raw_metadata.chapters) :
                LET up == raw_metadata.chapters[i]
                IN /\ UrlCount(ChaptersOf(procMeta'), up.url) = 1
                   /\ \A r \in RevisionsOf(ChaptersOf(procMeta'), up.url) :
                         r >= up.revision_date ]_vars

\* the downstream records of a store whose url the upstream no longer lists
RemovedUpstream(down, upstream_urls) ==
    {r \in Range(down) : r.url \notin upstream_urls}

\* no upstream record is new to the processed store or newer than its copy there
NothingNewOrNewer(down, up) ==
    \A i \in 1..Len(up) :
        /\ UrlCount(down, up[i].url) > 0
        /\ \A r \in RevisionsOf(down, up[i].url) : up[i].revision_date <= r

NewerFiles(files, url, rev) == {f \in files : f[2] = url /\ f[1] > rev}

\* C4: while an update run is under way, the file of every record the store
\* held before the run is still on disk unless a file of a newer revision of
\* that url is: no old file is gone before its replacement exists.
C4_DeleteAfterReplace ==
    /\ pc = "pr_update" =>
        \A r \in Range(ChaptersOf(pre.meta)) :
            r.filename \in procFiles \/ NewerFiles(procFiles, r.url, r.revision_date) # {}
    /\ pc = "dl_update" =>
        \A r \in Range(ChaptersOf(pre.meta)) :
            r.filename \in rawFiles \/ NewerFiles(rawFiles, r.url, r.revision_date) # {}

\* C5: a run writes its store's metadata file at most once, and not while its
\* work queue still holds a record.
C5_SingleFinalWrite ==
    /\ writes <= 1
    /\ (pc \in {"dl_all", "dl_update", "pr_all", "pr_update"} /\ queue # <<>>) => writes = 0

\* C6: a run that ends before its final metadata write leaves the store's
\* metadata file as it was when the run started.
C6_AllOrNothing ==
    [][ /\ DlRunNoWiki => rawMeta' = rawMeta
        /\ PrRunNoRaw => procMeta' = procMeta
        /\ (PrRunUpdate /\ pc' = "idle") => procMeta' = procMeta
        /\ (PrStep /\ pc' = "idle") => procMeta' = pre.meta ]_vars

\* C7: a raw record whose transform produced no output is not in the processed
\* metadata the run writes, and the records queued behind it are still transformed.
C7_TransformSkip ==
    [][ /\ PrFinish =>
            \A chapter \in prFailed \ procFiles :
                chapter \notin FilenamesOf(ChaptersOf(procMeta'))
        /\ (PrStep /\ pc' = pc) => queue' = Tail(queue) ]_vars

\* C8: a url whose fetch failed is not added to the raw metadata the run writes,
\* the urls queued behind it are still fetched, and every later run selects
\* each wiki url the raw metadata lacks, so the failed url is fetched again.
C8_FetchFailureRetried ==
    [][ /\ DlFetch =>
            /\ queue' = Tail(queue)
            /\ pc' = pc
            /\ UrlsOf(metadata'.chapters) \subseteq UrlsOf(metadata.chapters) \cup fetched'
        /\ DlFinish =>
            \A u \in dlFailed \ fetched :
                u \in UrlsOf(ChaptersOf(rawMeta')) =>
                    pc = "dl_update" /\ u \in UrlsOf(ChaptersOf(pre.meta))
        /\ (DlRun /\ Exists(wiki)) =>
            \A u \in WikiUrls \ UrlsOf(ChaptersOf(rawMeta)) :
                pc' \in {"dl_all", "dl_update"} /\ u \in Range(queue') ]_vars

\* C8 witness: a run has queued again a url whose fetch failed in the run before
\* and that the raw metadata of that run does not hold
C8_Witness ==
    /\ pc \in {"dl_all", "dl_update"}
    /\ \E u \in dlFailedPrev \cap Range(queue) : u \notin UrlsOf(ChaptersOf(pre.meta))

\* C9: where a run checks its store, the integrity check accepts the store only
\* if the files on disk are exactly the filenames its metadata records.
C9_ValidationExact ==
    /\ (pc = "idle" /\ validate_metadata(rawFiles, rawMeta)) =>
        rawFiles = FilenamesOf(ChaptersOf(rawMeta))
    /\ (pc = "dl_done" /\ Exists(rawMeta)
            /\ BaseProcessor_validate_metadata(procFiles, procMeta, raw_metadata)) =>
        procFiles = FilenamesOf(ChaptersOf(procMeta))

\* the highest revision among the records of url
MaxRevision(chapters, url) ==
    CHOOSE r \in RevisionsOf(chapters, url) : \A v \in RevisionsOf(chapters, url) : v <= r

\* C10: the collapse at the end of an update keeps, for every url, exactly one
\* record, the one of the highest revision, leaves that record's file on disk
\* and deletes the files of the records of lower revisions.
C10_EvictionCorrect ==
    [][ (DlFinish /\ pc = "dl_update") =>
            \A u \in UrlsOf(metadata.chapters) :
                LET top == MaxRevision(metadata.chapters, u)
                IN /\ UrlCount(ChaptersOf(rawMeta'), u) = 1
                   /\ RevisionsOf(ChaptersOf(rawMeta'), u) = {top}
                   /\ FileName(top, u) \in rawFiles'
                   /\ \A r \in RevisionsOf(metadata.chapters, u) \ {top} :
                         FileName(r, u) \notin rawFiles' ]_vars

\* C11: a run takes the full resync exactly when its store fails validation or
\* the upstream's subreddit, wiki_uri or wiki_section differs from the one the
\* store's metadata records; otherwise it takes the incremental update.
C11_FullResyncTrigger ==
    [][ /\ (DlRun /\ Exists(wiki)) =>
            (pc' = "dl_all" <=>
                \/ ~validate_metadata(rawFiles, rawMeta)
                \/ Identity(Load(rawMeta)) # Identity(Load(wiki)))
        /\ (PrRun /\ Exists(rawMeta)) =>
            (pc' = "pr_all" <=>
                \/ ~Exists(procMeta)
                \/ Identity(Load(procMeta)) # Identity(raw_metadata)
                \/ ~BaseProcessor_validate_metadata(procFiles, procMeta, raw_metadata)) ]_vars

\* C12: when an update replaces a record by a newer one, the revision the
\* store then holds for that url is the upstream's (the raw record's for the
\* Processor, the highest fetched for the Downloader), above the one held before.
C12_Monotonicity ==
    [][ /\ (PrFinish /\ pc = "pr_update") =>
            \A up \in Range(raw_metadata.chapters), d \in Range(ChaptersOf(pre.meta)) :
                (d.url = up.url /\ up.revision_date > d.revision_date) =>
                    RevisionsOf(ChaptersOf(procMeta'), up.url) = {up.revision_date}
        /\ (DlFinish /\ pc = "dl_update") =>
            \A c \in Range(metadata.chapters), d \in Range(ChaptersOf(pre.meta)) :
                (d.url = c.url /\ c.revision_date > d.revision_date) =>
                    /\ RevisionsOf(ChaptersOf(rawMeta'), c.url) =
                            {MaxRevision(metadata.chapters, c.url)}
                    /\ MaxRevision(metadata.chapters, c.url) > d.revision_date ]_vars

\* C12 witness: a Processor update has transformed a raw record of a revision
\* above the one the processed store held for that url, after a Downloader
\* update fetched it, and is about to write its metadata
C12_Witness ==
    /\ queue = <<>>
    /\ pc = "pr_update"
    /\ \E up \in Range(raw_metadata.chapters), d \in Range(ChaptersOf(pre.meta)) :
          /\ d.url = up.url /\ up.revision_date > d.revision_date
          /\ up \in Range(metadata.chapters)
          /\ up.filename \in procFiles

\* C13: whatever happens to one record, the loop of the run goes on with the
\* records queued behind it; the run is not ended by a record's failure.
C13_RecordErrorsConfined ==
    [][ /\ DlFetch => (pc' = pc /\ queue' = Tail(queue))
        /\ PrStep => (pc' = pc /\ queue' = Tail(queue)) ]_vars

\* C14: the Downloader changes nothing but the raw store, the Processor nothing
\* but the processed store, and neither changes the wiki file.
C14_StoreOwnership ==
    [][ /\ (DlRun \/ DlFetch \/ DlFinish) => UNCHANGED <<procMeta, procFiles, wiki>>
        /\ (PrRun \/ PrStep \/ PrFinish) => UNCHANGED <<rawMeta, rawFiles, wiki>> ]_vars

\* C14 witness: the Processor has wiped a processed store that held content
\* and is working through the queue while the raw store holds its files
C14_Witness ==
    /\ pc = "pr_all"
    /\ pre.files # {} /\ Exists(pre.meta)
    /\ procFiles = {} /\ ~Exists(procMeta)
    /\ rawFiles # {} /\ Exists(rawMeta)
    /\ queue # <<>>

\* no two records of chapters share a url
UniqueUrls(chapters) == \A u \in UrlsOf(chapters) : UrlCount(chapters, u) = 1

\* C15: the metadata a completed run writes holds at most one record per url,
\* and every record's filename names a file present in the store.
C15_StoreRecordInvariant ==
    [][ /\ DlFinish =>
            /\ UniqueUrls(ChaptersOf(rawMeta'))
            /\ FilenamesOf(ChaptersOf(rawMeta')) \subseteq rawFiles'
        /\ PrFinish =>
            /\ UniqueUrls(ChaptersOf(procMeta'))
            /\ FilenamesOf(ChaptersOf(procMeta')) \subseteq procFiles' ]_vars

\* C16: a validator applied to a store whose metadata file is missing, empty
\* or not deserializable returns false and does not raise, and it changes no
\* file of either store.
C16_ValidationTotal ==
    [][ /\ ValidateRaw =>
            /\ (~Exists(rawMeta) \/ rawYaml # "ok") => pc' = "raw_false"
            /\ UNCHANGED <<wiki, rawMeta, rawFiles, procMeta, procFiles, yamls>>
        /\ ValidateProcessed =>
            /\ (~Exists(procMeta) \/ procYaml # "ok") => pc' = "proc_false"
            /\ UNCHANGED <<wiki, rawMeta, rawFiles, procMeta, procFiles, yamls>> ]_vars

\* C17: every incremental update of the raw store queues the urls of the two
\* most recently revised raw records, whether or not a wiki url is missing.
C17_UnconditionalLookBack ==
    [][ (DlRunUpToDate \/ DlRunUpdate) =>
            /\ pc' = "dl_update"
            /\ \E recheck \in RecheckUrls(Load(rawMeta).chapters) :
                  Range(recheck) \subseteq Range(queue') ]_vars

\* the wiki urls the raw metadata lacks
NewUrls == WikiUrls \ UrlsOf(ChaptersOf(rawMeta))

\* the wiki urls the raw metadata holds at a revision below the submission's
UpdatedUrls ==
    {u \in WikiUrls \cap UrlsOf(ChaptersOf(rawMeta)) :
        \E r \in RevisionsOf(ChaptersOf(rawMeta), u) : reddit[u] > r}

\* the raw records new to the processed store or newer than its record of their url
NewOrUpdated(down, up) ==
    {c \in Range(up) :
        \/ c.url \notin UrlsOf(down)
        \/ \E r \in RevisionsOf(down, c.url) : c.revision_date > r}

\* C18: an incremental update queues exactly the new urls, the updated urls
\* and the look-back set; a record that is none of these is neither fetched
\* nor transformed, and its metadata record and its file stay as they are.
C18_DiffClassification ==
    [][ /\ (DlRunUpToDate \/ DlRunUpdate) =>
            \E recheck \in {{}} \cup {Range(r) : r \in RecheckUrls(Load(rawMeta).chapters)} :
                Range(queue') = NewUrls \cup UpdatedUrls \cup recheck
        /\ (DlFinish /\ pc = "dl_update") =>
            \A d \in Range(ChaptersOf(pre.meta)) :
                d.url \notin fetched \cup dlFailed =>
                    d \in Range(ChaptersOf(rawMeta')) /\ d.filename \in rawFiles'
        /\ (PrRunUpdate /\ pc' = "pr_update") =>
            Range(queue') =
                {c.filename : c \in NewOrUpdated(Load(procMeta).chapters,
                                                 raw_metadata.chapters)}
        /\ (PrFinish /\ pc = "pr_update") =>
            \A d \in Range(ChaptersOf(pre.meta)) :
                (\A up \in Range(raw_metadata.chapters) :
                    up.url = d.url => up.revision_date <= d.revision_date) =>
                    d \in Range(ChaptersOf(procMeta')) /\ d.filename \in procFiles' ]_vars

\* C19: a full resync first deletes every file and the metadata of its store;
\* until it ends the store holds only what this run produced, and the metadata
\* it writes holds only records made in this run, under the upstream's
\* subreddit, wiki_uri and wiki_section.
C19_FullResyncBaseline ==
    [][ /\ DlRunFetchAll =>
            rawFiles' = {} /\ ~Exists(rawMeta') /\ metadata'.chapters = <<>>
        /\ (DlFetch /\ pc = "dl_all") =>
            ~Exists(rawMeta') /\ rawFiles' = FilenamesOf(metadata'.chapters)
        /\ (DlFinish /\ pc = "dl_all") =>
            /\ Identity(Load(rawMeta')) = Identity(Load(wiki))
            /\ UrlsOf(ChaptersOf(rawMeta')) = fetched
            /\ FilenamesOf(ChaptersOf(rawMeta')) = rawFiles'
        /\ PrRunWipe =>
            procFiles' = {} /\ ~Exists(procMeta') /\ metadata'.chapters = <<>>
        /\ (PrStep /\ pc = "pr_all" /\ pc' = pc) =>
            ~Exists(procMeta') /\ procFiles' \subseteq FilenamesOf(metadata'.chapters)
        /\ (PrFinish /\ pc = "pr_all") =>
            /\ Identity(Load(procMeta')) = Identity(raw_metadata)
            /\ Range(ChaptersOf(procMeta')) \subseteq Range(raw_metadata.chapters)
            /\ procFiles' \subseteq FilenamesOf(ChaptersOf(procMeta')) ]_vars

\* C19 witness: a full resync, entered because the wiki's identity differs from
\* the one a populated raw store records, has fetched a chapter
C19_Witness ==
    /\ pc = "dl_all"
    /\ Exists(pre.meta) /\ pre.files # {}
    /\ validate_metadata(pre.files, pre.meta)
    /\ Identity(Load(pre.meta)) # Identity(Load(wiki))
    /\ metadata.chapters # <<>>

\* C20: a transform that succeeds writes its output under the raw record's
\* filename and nothing else, and the run appends exactly one record, equal in
\* filename, url and revision to the raw record of that filename.
C20_ProcessedRecordDerivation ==
    [][ (PrStep /\ pc' = pc) =>
            LET chapter == Head(queue)
                n == Len(metadata.chapters)
            IN /\ chapter \notin prFailed' => chapter \in procFiles'
               /\ procFiles' \subseteq procFiles \cup {chapter}
               /\ Len(metadata'.chapters) = n + 1
               /\ SubSeq(metadata'.chapters, 1, n) = metadata.chapters
               /\ metadata'.chapters[n + 1].filename = chapter
               /\ metadata'.chapters[n + 1] \in Range(raw_metadata.chapters) ]_vars

\* C20 witness: an update run has transformed a raw record the processed
\* store did not hold and appended its record
C20_Witness ==
    /\ pc = "pr_update"
    /\ Len(raw_metadata.chapters) > 1
    /\ \E c \in Range(metadata.chapters) :
          /\ c \notin Range(ChaptersOf(pre.meta))
          /\ c.filename \in procFiles /\ c.filename \notin prFailed
          /\ c \in Range(raw_metadata.chapters)
          /\ c # raw_metadata.chapters[1]

\* no item occurs twice in the queue
NoRepeats(q) == \A i, j \in 1..Len(q) : q[i] = q[j] => i = j

\* C21: a run enqueues each url or record at most once, attempts the head of
\* the queue at each turn and puts nothing back, so the queue shrinks by one
\* item per attempt until it is empty.
C21_SequentialDrain ==
    [][ /\ (DlRunFetchAll \/ DlRunUpdate \/ PrRunWipe \/ (PrRunUpdate /\ pc' = "pr_update")) =>
            NoRepeats(queue')
        /\ DlRunUpdate =>
            \A i \in 1..Len(queue') :
                queue'[i] \in NewUrls => \A j \in 1..Len(queue') : queue'[j] = queue'[i] => j = i
        /\ DlFetch => (queue' = Tail(queue) /\ pc' = pc)
        /\ (PrStep /\ pc' = pc) => queue' = Tail(queue) ]_vars

\* C22: when a run has written its metadata, the .md files of the store are
\* exactly the filenames the metadata records; no file of a superseded
\* revision is left behind.
C22_NoOrphanFiles ==
    [][ /\ DlFinish => rawFiles' = FilenamesOf(ChaptersOf(rawMeta'))
        /\ PrFinish => procFiles' = FilenamesOf(ChaptersOf(procMeta')) ]_vars

\* C23: a run that ends having recorded at least one chapter leaves its store
\* such that the next run, the upstream's identity unchanged, finds it valid
\* and takes the incremental update, not another full resync.
C23_NoResyncLoop ==
    [][ /\ (DlFinish /\ ChaptersOf(rawMeta') # <<>>) =>
            /\ validate_metadata(rawFiles', rawMeta')
            /\ compare_meta_and_wiki(Load(rawMeta'), Load(wiki)).is_valid
        /\ (PrFinish /\ ChaptersOf(procMeta') # <<>>) =>
            BaseProcessor_validate_metadata(procFiles', procMeta', raw_metadata) ]_vars

====
